---- MODULE Spec2Model ----
(***************************************************************************)
(* Model of nat-generator (app.py): generate_nat_mapping and the CSV       *)
(* export of main.  Range texts, rendered addresses, messages and the CSV  *)
(* are sequences of one-character strings.  The ipaddress calls made by    *)
(* generate_nat_mapping (ip_network with strict=False, hosts, iteration,   *)
(* str) are modelled by what the library does, on scaled address widths:   *)
(* the 4-byte family has IPV4LENGTH bits in OCTET_COUNT dotted decimal     *)
(* groups, the 16-byte family IPV6LENGTH bits in HEXTET_COUNT colon        *)
(* separated hexadecimal groups.  A scaled width need not be a multiple of *)
(* the group count: the groups have GroupBits bits and the leading group   *)
(* is cut by the width.                                                    *)
(***************************************************************************)
EXTENDS Integers, Sequences, FiniteSets, TLC

IPV4LENGTH == 3
IPV6LENGTH == 5
OCTET_COUNT == 2
HEXTET_COUNT == 3

---------------------------------------------------------------------------
(* Optional values: None, or Some(x).                                      *)
None == <<>>
Some(x) == <<x>>

(* -------- integers and bit operations ---------------------------------- *)
RECURSIVE Pow2(_)
Pow2(n) == IF n <= 0 THEN 1 ELSE 2 * Pow2(n - 1)

Min(a, b) == IF a <= b THEN a ELSE b

RECURSIVE BitAnd(_, _)
BitAnd(a, b) ==
    IF a = 0 \/ b = 0 THEN 0
    ELSE (IF a % 2 = 1 /\ b % 2 = 1 THEN 1 ELSE 0) + 2 * BitAnd(a \div 2, b \div 2)

RECURSIVE BitOr(_, _)
BitOr(a, b) ==
    IF a = 0 THEN b
    ELSE IF b = 0 THEN a
    ELSE (IF a % 2 = 1 \/ b % 2 = 1 THEN 1 ELSE 0) + 2 * BitOr(a \div 2, b \div 2)

RECURSIVE BitXor(_, _)
BitXor(a, b) ==
    IF a = 0 THEN b
    ELSE IF b = 0 THEN a
    ELSE (IF a % 2 # b % 2 THEN 1 ELSE 0) + 2 * BitXor(a \div 2, b \div 2)

(* -------- text ---------------------------------------------------------- *)
HexChars == <<"0", "1", "2", "3", "4", "5", "6", "7", "8", "9",
              "a", "b", "c", "d", "e", "f">>

DecDigits == {HexChars[i] : i \in 1..10}
HEX_DIGITS == {HexChars[i] : i \in 1..16}

DigitValue(c) == (CHOOSE i \in 1..16 : HexChars[i] = c) - 1

(* int(text, base) for a text of legal digits *)
RECURSIVE int(_, _)
int(text, base) ==
    IF text = <<>> THEN 0
    ELSE base * int(SubSeq(text, 1, Len(text) - 1), base) + DigitValue(text[Len(text)])

(* str(n) and '%x' % n for n >= 0 *)
RECURSIVE Digits(_, _)
Digits(n, base) ==
    IF n < base THEN <<HexChars[n + 1]>>
    ELSE Digits(n \div base, base) \o <<HexChars[(n % base) + 1]>>

(* text.isascii() and text.isdigit() *)
isdigit(text) == text # <<>> /\ \A i \in 1..Len(text) : text[i] \in DecDigits

contains(text, c) == \E i \in 1..Len(text) : text[i] = c

(* text.split(sep) *)
RECURSIVE split(_, _)
split(text, sep) ==
    IF ~contains(text, sep) THEN <<text>>
    ELSE LET i == CHOOSE k \in 1..Len(text) :
                      text[k] = sep /\ \A j \in 1..(k - 1) : text[j] # sep
         IN  <<SubSeq(text, 1, i - 1)>> \o split(SubSeq(text, i + 1, Len(text)), sep)

(* sep.join(parts) *)
RECURSIVE join(_, _)
join(parts, sep) ==
    IF parts = <<>> THEN <<>>
    ELSE IF Len(parts) = 1 THEN parts[1]
    ELSE parts[1] \o <<sep>> \o join(Tail(parts), sep)

(* -------- ipaddress: the two address families --------------------------- *)
max_prefixlen(version) == IF version = 4 THEN IPV4LENGTH ELSE IPV6LENGTH

ALL_ONES(version) == Pow2(max_prefixlen(version)) - 1

GroupCount(version) == IF version = 4 THEN OCTET_COUNT ELSE HEXTET_COUNT

(* bits of one octet (8 in the library) or hextet (16 in the library) *)
GroupBits(version) ==
    (max_prefixlen(version) + GroupCount(version) - 1) \div GroupCount(version)

GroupMax(version) == Pow2(GroupBits(version)) - 1

(* ip_int.to_bytes(n, 'big'), as the sequence of group values *)
to_groups(ip_int, version) ==
    [i \in 1..GroupCount(version) |->
        (ip_int \div Pow2(GroupBits(version) * (GroupCount(version) - i)))
            % Pow2(GroupBits(version))]

(* int.from_bytes(groups, 'big') *)
RECURSIVE from_groups(_, _)
from_groups(groups, version) ==
    IF groups = <<>> THEN 0
    ELSE Pow2(GroupBits(version)) * from_groups(SubSeq(groups, 1, Len(groups) - 1), version)
         + groups[Len(groups)]

(* a parsed number, None when it is above the largest one permitted *)
bounded(value, largest) == IF value > largest THEN None ELSE Some(value)

(* a parsed value wider than the scaled family is no address of it *)
checked(ip_int, version) == bounded(ip_int, ALL_ONES(version))

(* the values of parsed groups, None when one of them did not parse *)
combined(values, version) ==
    IF \E i \in 1..Len(values) : values[i] = None THEN None
    ELSE checked(from_groups([i \in 1..Len(values) |-> values[i][1]], version), version)

(* _BaseV4._parse_octet: None where the library raises ValueError *)
parse_octet(octet_str) ==
    IF octet_str = <<>> THEN None
    ELSE IF ~isdigit(octet_str) THEN None
    ELSE IF Len(octet_str) > Len(Digits(GroupMax(4), 10)) THEN None
    ELSE IF octet_str # <<"0">> /\ octet_str[1] = "0" THEN None
    ELSE bounded(int(octet_str, 10), GroupMax(4))

(* _BaseV4._ip_int_from_string, after the split on dots *)
v4_ip_int_from_octets(octets) ==
    IF Len(octets) # OCTET_COUNT THEN None
    ELSE combined([i \in 1..Len(octets) |-> parse_octet(octets[i])], 4)

(* _BaseV4._ip_int_from_string: None where it raises AddressValueError *)
v4_ip_int_from_string(ip_str) ==
    IF ip_str = <<>> THEN None ELSE v4_ip_int_from_octets(split(ip_str, "."))

(* _BaseV4._string_from_ip_int *)
v4_string_from_ip_int(ip_int) ==
    join([i \in 1..OCTET_COUNT |-> Digits(to_groups(ip_int, 4)[i], 10)], ".")

(* _BaseV6._parse_hextet: None where the library raises ValueError *)
parse_hextet(hextet_str) ==
    IF \E i \in 1..Len(hextet_str) : hextet_str[i] \notin HEX_DIGITS THEN None
    ELSE IF Len(hextet_str) > Len(Digits(GroupMax(6), 16)) THEN None
    ELSE IF hextet_str = <<>> THEN None
    ELSE bounded(int(hextet_str, 16), GroupMax(6))

(* _BaseV6._ip_int_from_string, the final loops: parts_hi leading parts,   *)
(* parts_skipped zero groups, parts_lo trailing parts                      *)
v6_ip_int_from_hextets(parts, parts_hi, parts_lo, parts_skipped) ==
    combined([i \in 1..(parts_hi + parts_skipped + parts_lo) |->
                 IF i <= parts_hi THEN parse_hextet(parts[i])
                 ELSE IF i <= parts_hi + parts_skipped THEN Some(0)
                 ELSE parse_hextet(parts[Len(parts) - (parts_hi + parts_skipped + parts_lo) + i])],
             6)

(* _BaseV6._ip_int_from_string, with a '::' at the 0-based skip_index *)
v6_ip_int_skipping(parts, parts_hi, parts_lo) ==
    IF parts[1] = <<>> /\ parts_hi - 1 # 0 THEN None
    ELSE IF parts[Len(parts)] = <<>> /\ parts_lo - 1 # 0 THEN None
    ELSE IF HEXTET_COUNT - ((IF parts[1] = <<>> THEN parts_hi - 1 ELSE parts_hi)
                            + (IF parts[Len(parts)] = <<>> THEN parts_lo - 1 ELSE parts_lo)) < 1
    THEN None
    ELSE v6_ip_int_from_hextets(
             parts,
             IF parts[1] = <<>> THEN parts_hi - 1 ELSE parts_hi,
             IF parts[Len(parts)] = <<>> THEN parts_lo - 1 ELSE parts_lo,
             HEXTET_COUNT - ((IF parts[1] = <<>> THEN parts_hi - 1 ELSE parts_hi)
                             + (IF parts[Len(parts)] = <<>> THEN parts_lo - 1 ELSE parts_lo)))

(* _BaseV6._ip_int_from_string, once the empty inner parts are found *)
v6_ip_int_from_skips(parts, skips) ==
    IF Cardinality(skips) > 1 THEN None
    ELSE IF skips # {}
    THEN v6_ip_int_skipping(parts, (CHOOSE i \in skips : TRUE) - 1,
                            Len(parts) - ((CHOOSE i \in skips : TRUE) - 1) - 1)
    ELSE IF Len(parts) # HEXTET_COUNT THEN None
    ELSE IF parts[1] = <<>> \/ parts[Len(parts)] = <<>> THEN None
    ELSE v6_ip_int_from_hextets(parts, Len(parts), 0, 0)

(* _BaseV6._ip_int_from_string, after a dotted suffix has been replaced *)
v6_ip_int_from_parts(parts) ==
    IF Len(parts) > HEXTET_COUNT + 1 THEN None
    ELSE v6_ip_int_from_skips(parts, {i \in 2..(Len(parts) - 1) : parts[i] = <<>>})

(* _BaseV6._ip_int_from_string: the dotted suffix becomes two hextets *)
v6_ip_int_with_suffix(parts, ipv4_int) ==
    IF ipv4_int = None THEN None
    ELSE v6_ip_int_from_parts(
             SubSeq(parts, 1, Len(parts) - 1)
             \o <<Digits((ipv4_int[1] \div Pow2(GroupBits(6))) % Pow2(GroupBits(6)), 16),
                  Digits(ipv4_int[1] % Pow2(GroupBits(6)), 16)>>)

(* _BaseV6._ip_int_from_string, after the split on colons *)
v6_ip_int_from_split(parts) ==
    IF Len(parts) < 3 THEN None
    ELSE IF contains(parts[Len(parts)], ".")
    THEN v6_ip_int_with_suffix(parts, v4_ip_int_from_string(parts[Len(parts)]))
    ELSE v6_ip_int_from_parts(parts)

(* _BaseV6._ip_int_from_string: None where it raises AddressValueError *)
v6_ip_int_from_string(ip_str) ==
    IF ip_str = <<>> THEN None ELSE v6_ip_int_from_split(split(ip_str, ":"))

(* the loop of _BaseV6._compress_hextets, from the 0-based index on *)
RECURSIVE scan_hextets(_, _, _)
scan_hextets(hextets, index, st) ==
    IF index = Len(hextets) THEN st
    ELSE IF hextets[index + 1] = <<"0">>
    THEN LET len == st.doublecolon_len + 1
             start == IF st.doublecolon_start = -1 THEN index ELSE st.doublecolon_start
             longest == len > st.best_doublecolon_len
         IN  scan_hextets(hextets, index + 1,
                 [doublecolon_len |-> len,
                  doublecolon_start |-> start,
                  best_doublecolon_len |-> IF longest THEN len ELSE st.best_doublecolon_len,
                  best_doublecolon_start |-> IF longest THEN start ELSE st.best_doublecolon_start])
    ELSE scan_hextets(hextets, index + 1,
             [st EXCEPT !.doublecolon_len = 0, !.doublecolon_start = -1])

(* _BaseV6._compress_hextets, after its loop *)
compress_from(hextets, st) ==
    LET start == st.best_doublecolon_start
        end == st.best_doublecolon_start + st.best_doublecolon_len
        padded == IF end = Len(hextets) THEN hextets \o << <<>> >> ELSE hextets
        cut == SubSeq(padded, 1, start) \o << <<>> >> \o SubSeq(padded, end + 1, Len(padded))
    IN  IF st.best_doublecolon_len > 1
        THEN (IF start = 0 THEN << <<>> >> \o cut ELSE cut)
        ELSE hextets

(* _BaseV6._compress_hextets *)
compress_hextets(hextets) ==
    compress_from(hextets,
                  scan_hextets(hextets, 0,
                      [doublecolon_len |-> 0, doublecolon_start |-> -1,
                       best_doublecolon_len |-> 0, best_doublecolon_start |-> -1]))

(* _BaseV6._string_from_ip_int *)
v6_string_from_ip_int(ip_int) ==
    join(compress_hextets([i \in 1..HEXTET_COUNT |-> Digits(to_groups(ip_int, 6)[i], 16)]), ":")

(* -------- ipaddress: addresses and networks ----------------------------- *)
(* An address object: its family, integer value and scope id ("" when the  *)
(* library holds None; an empty scope id is never constructed).            *)
Address(version, ip, scope_id) == [version |-> version, ip |-> ip, scope_id |-> scope_id]

(* an address object from a parsed integer, None when the parse failed *)
address_of(version, ip_int, scope_id) ==
    IF ip_int = None THEN None ELSE Some(Address(version, ip_int[1], scope_id))

(* _BaseV6._split_scope_id at the first '%', the 1-based position i *)
split_scope_id_at(ip_str, i) ==
    IF i = Len(ip_str) \/ contains(SubSeq(ip_str, i + 1, Len(ip_str)), "%") THEN None
    ELSE Some([addr |-> SubSeq(ip_str, 1, i - 1),
               scope_id |-> SubSeq(ip_str, i + 1, Len(ip_str))])

(* _BaseV6._split_scope_id: None where it raises AddressValueError *)
split_scope_id(ip_str) ==
    IF ~contains(ip_str, "%") THEN Some([addr |-> ip_str, scope_id |-> <<>>])
    ELSE split_scope_id_at(ip_str,
             CHOOSE k \in 1..Len(ip_str) :
                 ip_str[k] = "%" /\ \A j \in 1..(k - 1) : ip_str[j] # "%")

(* IPv6Address.__init__ on a text, after the scope id is split off *)
IPv6Address(sp) ==
    IF sp = None THEN None
    ELSE address_of(6, v6_ip_int_from_string(sp[1].addr), sp[1].scope_id)

(* IPv4Address(text) / IPv6Address(text): None where AddressValueError is raised *)
IPAddress(version, addr_str) ==
    IF contains(addr_str, "/") THEN None
    ELSE IF version = 4 THEN address_of(4, v4_ip_int_from_string(addr_str), <<>>)
    ELSE IPv6Address(split_scope_id(addr_str))

(* _BaseAddress.__str__ and IPv6Address.__str__ *)
str(address) ==
    IF address.version = 4 THEN v4_string_from_ip_int(address.ip)
    ELSE v6_string_from_ip_int(address.ip)
         \o (IF address.scope_id # <<>> THEN <<"%">> \o address.scope_id ELSE <<>>)

(* _count_righthand_zero_bits *)
RECURSIVE count_righthand_zero_bits(_, _)
count_righthand_zero_bits(number, bits) ==
    IF number = 0 THEN bits
    ELSE IF bits = 0 \/ number % 2 = 1 THEN 0
    ELSE 1 + count_righthand_zero_bits(number \div 2, bits - 1)

(* _ip_int_from_prefix: the netmask of a prefix length *)
ip_int_from_prefix(version, prefixlen) ==
    BitXor(ALL_ONES(version), ALL_ONES(version) \div Pow2(prefixlen))

(* _prefix_from_ip_int, after the trailing zeroes are counted *)
prefix_from_zeroes(version, ip_int, trailing_zeroes) ==
    IF ip_int \div Pow2(trailing_zeroes)
           # Pow2(max_prefixlen(version) - trailing_zeroes) - 1
    THEN None
    ELSE Some(max_prefixlen(version) - trailing_zeroes)

(* _prefix_from_ip_int: None where it raises ValueError *)
prefix_from_ip_int(version, ip_int) ==
    prefix_from_zeroes(version, ip_int,
                       count_righthand_zero_bits(ip_int, max_prefixlen(version)))

(* variant: the range check of the prefix length is missing *)
prefix_from_prefix_string_unranged(version, prefixlen_str) ==
    IF ~isdigit(prefixlen_str) THEN None ELSE Some(int(prefixlen_str, 10))

(* _prefix_from_prefix_string: None where it raises NetmaskValueError *)
prefix_from_prefix_string(version, prefixlen_str) ==
    IF ~isdigit(prefixlen_str) THEN None
    ELSE bounded(int(prefixlen_str, 10), max_prefixlen(version))

(* _prefix_from_ip_string, the two tries on the parsed mask: as a netmask, *)
(* then inverted as a hostmask                                             *)
prefix_from_mask(ip_int, tries) ==
    IF ip_int = None THEN None
    ELSE IF tries[1] # None THEN tries[1]
    ELSE tries[2]

(* _prefix_from_ip_string on a parsed mask *)
prefix_from_mask_int(ip_int) ==
    prefix_from_mask(ip_int,
        [k \in 1..2 |->
            IF ip_int = None THEN None
            ELSE prefix_from_ip_int(4, IF k = 1 THEN ip_int[1]
                                       ELSE BitXor(ip_int[1], ALL_ONES(4)))])

(* _prefix_from_ip_string (reached for the 4-byte family only): None where *)
(* it raises NetmaskValueError                                             *)
prefix_from_ip_string(ip_str) == prefix_from_mask_int(v4_ip_int_from_string(ip_str))

(* _make_netmask, after the text was tried as a prefix length *)
make_netmask_from(version, arg, prefixlen) ==
    IF prefixlen # None THEN prefixlen
    ELSE IF version = 4 THEN prefix_from_ip_string(arg)
    ELSE None

(* _make_netmask on the text after the slash: the prefix length, or None   *)
(* where NetmaskValueError is raised.  Only the 4-byte family accepts a    *)
(* netmask or hostmask written as an address.                              *)
make_netmask(version, arg) ==
    make_netmask_from(version, arg, prefix_from_prefix_string(version, arg))

(* _split_optional_netmask, after the split on slashes *)
checked_split(addr) == IF Len(addr) > 2 THEN None ELSE Some(addr)

(* _split_optional_netmask: None where it raises AddressValueError *)
split_optional_netmask(address) == checked_split(split(address, "/"))

(* outcome of a constructor: the exception class raised ("" for none), its *)
(* message, and the value                                                  *)
Returned(value) == [raised |-> "", message |-> <<>>, value |-> Some(value)]
Raised(class, message) == [raised |-> class, message |-> message, value |-> None]

(* a network object *)
Network(version, network_address, prefixlen) ==
    [version |-> version, network_address |-> network_address, prefixlen |-> prefixlen]

(* IPv4Network.__init__ / IPv6Network.__init__, the host-bit check:        *)
(* masked is packed & netmask                                              *)
IPNetwork_masked(version, address, strict, addr, prefixlen, masked) ==
    IF masked # addr.ip
    THEN (IF strict
          THEN Raised("ValueError", address \o <<" has host bits set">>)
          ELSE Returned(Network(version, Address(version, masked, <<>>), prefixlen)))
    ELSE Returned(Network(version, addr, prefixlen))

(* IPv4Network.__init__ / IPv6Network.__init__, after address and mask     *)
(* were parsed                                                             *)
IPNetwork_parsed(version, address, strict, addr, prefixlen) ==
    IF addr = None THEN Raised("AddressValueError", <<"not an address">>)
    ELSE IF prefixlen = None THEN Raised("NetmaskValueError", <<"not a valid netmask">>)
    ELSE IPNetwork_masked(version, address, strict, addr[1], prefixlen[1],
                          BitAnd(addr[1].ip, ip_int_from_prefix(version, prefixlen[1])))

(* IPv4Network.__init__ / IPv6Network.__init__, after _split_addr_prefix   *)
IPNetwork_split(version, address, strict, sp) ==
    IF sp = None THEN Raised("AddressValueError", <<"Only one '/' permitted">>)
    ELSE IPNetwork_parsed(version, address, strict,
                          IPAddress(version, sp[1][1]),
                          IF Len(sp[1]) > 1 THEN make_netmask(version, sp[1][2])
                          ELSE Some(max_prefixlen(version)))

(* IPv4Network(address, strict) / IPv6Network(address, strict) *)
IPNetwork(version, address, strict) ==
    IPNetwork_split(version, address, strict, split_optional_netmask(address))

(* ipaddress.ip_network, given the outcome of each family's constructor *)
first_network(address, tried) ==
    IF tried[4].raised \notin {"AddressValueError", "NetmaskValueError"} THEN tried[4]
    ELSE IF tried[6].raised \notin {"AddressValueError", "NetmaskValueError"} THEN tried[6]
    ELSE Raised("ValueError",
                <<"'">> \o address \o <<"' does not appear to be an IPv4 or IPv6 network">>)

(* variant: the networks are constructed with strict left at its default *)
ip_network_strict(address, strict) ==
    first_network(address, [v \in {4, 6} |-> IPNetwork(v, address, TRUE)])

(* ipaddress.ip_network(address, strict) *)
ip_network(address, strict) ==
    first_network(address, [v \in {4, 6} |-> IPNetwork(v, address, strict)])

(* _BaseNetwork.hostmask and broadcast_address (integer value) *)
broadcast_address(network) ==
    BitOr(network.network_address.ip,
          BitXor(ip_int_from_prefix(network.version, network.prefixlen),
                 ALL_ONES(network.version)))

(* variant: the range is walked downwards *)
address_range_reversed(version, start, stop) ==
    [i \in 1..(stop - start) |-> Address(version, stop - i, <<>>)]

(* range(start, stop) of addresses built from integers *)
address_range(version, start, stop) ==
    [i \in 1..(stop - start) |-> Address(version, start + i - 1, <<>>)]

(* _BaseNetwork.__iter__, given the broadcast address *)
iter_to(network, broadcast) ==
    address_range(network.version, network.network_address.ip, broadcast + 1)

(* _BaseNetwork.__iter__ *)
iter(network) == iter_to(network, broadcast_address(network))

(* variant: the host range runs up to and including the broadcast address *)
hosts_to_inclusive(network, broadcast) ==
    IF network.prefixlen = max_prefixlen(network.version) - 1
    THEN iter_to(network, broadcast)
    ELSE IF network.prefixlen = max_prefixlen(network.version)
    THEN <<network.network_address>>
    ELSE address_range(network.version, network.network_address.ip + 1, broadcast + 1)

(* variant: the host range stops before the last address in both families *)
hosts_to_exclusive(network, broadcast) ==
    IF network.prefixlen = max_prefixlen(network.version) - 1
    THEN iter_to(network, broadcast)
    ELSE IF network.prefixlen = max_prefixlen(network.version)
    THEN <<network.network_address>>
    ELSE address_range(network.version, network.network_address.ip + 1, broadcast)

(* network.hosts(), given the broadcast address: __init__ rebinds it for   *)
(* the two longest prefixes (the single address is the one parsed from the *)
(* text, which for that prefix is network_address); otherwise it is        *)
(* _BaseNetwork.hosts for the 4-byte family and IPv6Network.hosts for the  *)
(* 16-byte family.                                                         *)
hosts_to(network, broadcast) ==
    IF network.prefixlen = max_prefixlen(network.version) - 1
    THEN iter_to(network, broadcast)
    ELSE IF network.prefixlen = max_prefixlen(network.version)
    THEN <<network.network_address>>
    ELSE address_range(network.version, network.network_address.ip + 1,
                       IF network.version = 4 THEN broadcast ELSE broadcast + 1)

(* network.hosts() *)
hosts(network) == hosts_to(network, broadcast_address(network))

(* zip(a, b) *)
zip(a, b) == [i \in 1..Min(Len(a), Len(b)) |-> <<a[i], b[i]>>]

(* -------- app.py --------------------------------------------------------- *)
(* the fixed parts of the two messages (without the leading mark) *)
MaskError == "ERROR: Subnet masks must be identical! DMZ: /"
FormatError == "ERROR: Invalid IP format - "

(* the message of line 15 *)
MaskMessage(dmz_prefixlen, internal_prefixlen) ==
    <<MaskError>> \o Digits(dmz_prefixlen, 10)
        \o <<", Internal: /">> \o Digits(internal_prefixlen, 10)

(* the message of line 37 *)
FormatMessage(e) == <<FormatError>> \o e

(* lines 27-32: one entry per zipped pair, both addresses rendered *)
create_mapping(pairs) ==
    [i \in 1..Len(pairs) |->
        [column \in {"DMZ_IP", "Internal_IP"} |->
            str(IF column = "DMZ_IP" THEN pairs[i][1] ELSE pairs[i][2])]]

(* variant: a failure returns an empty list instead of None *)
Outcome_empty_list(mappings_, error_, networks, ips) ==
    [mappings |-> IF mappings_ = None THEN Some(<<>>) ELSE mappings_, error |-> error_,
     dmz_network |-> networks.dmz.value, internal_network |-> networks.internal.value,
     dmz_ips |-> ips.dmz, internal_ips |-> ips.internal]

(* what a call leaves behind: the returned pair (mappings, error) and the  *)
(* locals of the call                                                      *)
Outcome(mappings_, error_, networks, ips) ==
    [mappings |-> mappings_, error |-> error_,
     dmz_network |-> networks.dmz.value, internal_network |-> networks.internal.value,
     dmz_ips |-> ips.dmz, internal_ips |-> ips.internal]

NoIps == [dmz |-> <<>>, internal |-> <<>>]

(* lines 26-34: the mapping of the two lists *)
mapped(networks, ips) ==
    Outcome(Some(create_mapping(zip(ips.dmz, ips.internal))), None, networks, ips)

(* variant: the second list always holds all addresses of its network *)
listed_all_internal(networks, host_ips) ==
    mapped(networks,
           [k \in {"dmz", "internal"} |->
               IF k = "dmz" THEN host_ips.dmz ELSE iter(networks.internal.value[1])])

(* lines 17-24: the two lists, all addresses when the first has no hosts *)
listed(networks, host_ips) ==
    mapped(networks,
           IF host_ips.dmz = <<>>
           THEN [k \in {"dmz", "internal"} |-> iter(networks[k].value[1])]
           ELSE host_ips)

(* variant: the comparison of the prefix lengths is missing *)
responded_unchecked(networks) ==
    IF networks.dmz.raised # ""
    THEN Outcome(None, Some(FormatMessage(networks.dmz.message)),
                 [networks EXCEPT !.internal = Raised("", <<>>)], NoIps)
    ELSE IF networks.internal.raised # ""
    THEN Outcome(None, Some(FormatMessage(networks.internal.message)), networks, NoIps)
    ELSE listed(networks, [k \in {"dmz", "internal"} |-> hosts(networks[k].value[1])])

(* lines 8-39, given the outcome of the two ip_network calls; an exception *)
(* of the first call leaves the second unmade                              *)
responded(networks) ==
    IF networks.dmz.raised # ""
    THEN Outcome(None, Some(FormatMessage(networks.dmz.message)),
                 [networks EXCEPT !.internal = Raised("", <<>>)], NoIps)
    ELSE IF networks.internal.raised # ""
    THEN Outcome(None, Some(FormatMessage(networks.internal.message)), networks, NoIps)
    ELSE IF networks.dmz.value[1].prefixlen # networks.internal.value[1].prefixlen
    THEN Outcome(None,
                 Some(MaskMessage(networks.dmz.value[1].prefixlen,
                                  networks.internal.value[1].prefixlen)),
                 networks, NoIps)
    ELSE listed(networks, [k \in {"dmz", "internal"} |-> hosts(networks[k].value[1])])

(* generate_nat_mapping(dmz_range, internal_range), lines 6-39 *)
generate_nat_mapping(dmz_range_, internal_range_) ==
    responded([k \in {"dmz", "internal"} |->
                  ip_network(IF k = "dmz" THEN dmz_range_ ELSE internal_range_, FALSE)])

(* main, lines 149-152: the CSV text of a result *)
Header == <<"D", "M", "Z", "_", "I", "P", ",", "I", "n", "t", "e", "r", "n", "a", "l", "_", "I", "P">>

csv_data_of(mappings_) ==
    join(<<Header>> \o [i \in 1..Len(mappings_) |->
                          mappings_[i].DMZ_IP \o <<",">> \o mappings_[i].Internal_IP],
         "\n")

(* -------- the range texts a call is given ------------------------------- *)
Families == {4, 6}

(* every address of a family, in its canonical text *)
AddressTexts(version) == {str(Address(version, a, <<>>)) : a \in 0..ALL_ONES(version)}

(* one address of a family, with low and high bits set *)
ProbeAddressTexts(version) == {str(Address(version, ALL_ONES(version) - 2, <<>>))}

WithSuffix(texts, suffix) == {t \o <<"/">> \o suffix : t \in texts}

WithPrefix(texts, N) == WithSuffix(texts, Digits(N, 10))

(* address/N for every N of the family *)
PrefixedTexts(version, texts) ==
    UNION {WithPrefix(texts, N) : N \in 0..max_prefixlen(version)}

(* address/N with N one past the family's longest prefix *)
OutOfRangeTexts(version, texts) == WithPrefix(texts, max_prefixlen(version) + 1)

EmptyText == <<>>

(* texts that are an address of neither family *)
BadAddresses ==
    { <<"x">>,
      join([i \in 1..(OCTET_COUNT + 1) |-> <<"0">>], "."),
      join([i \in 1..(OCTET_COUNT - 1) |-> <<"0">>], "."),
      <<"0">> \o v4_string_from_ip_int(1),
      Digits(GroupMax(4) + 1, 10) \o Tail(v4_string_from_ip_int(0)),
      <<":", ":", ":">>,
      <<":", ":", "%">>,
      v6_string_from_ip_int(1) \o <<":">> }

BadAddressTexts == BadAddresses \cup WithPrefix({<<"x">>}, 1)

(* an address followed by something that is no prefix length *)
MalformedPrefixTexts ==
    UNION {WithSuffix(ProbeAddressTexts(v), m) :
               v \in Families, m \in {<<>>, <<"-", "1">>, <<"1", "/", "1">>, <<"x">>}}

BadPrefixTexts ==
    OutOfRangeTexts(4, AddressTexts(4)) \cup OutOfRangeTexts(6, AddressTexts(6))
    \cup MalformedPrefixTexts

(* 16-byte addresses with a scope id *)
ScopeIds == {<<",">>, <<"\n">>}

ScopedAddresses == {t \o <<"%">> \o sc : t \in ProbeAddressTexts(6), sc \in ScopeIds}

ScopedTexts ==
    ScopedAddresses
    \cup WithPrefix(ScopedAddresses, IPV6LENGTH)
    \cup WithPrefix(ScopedAddresses, IPV6LENGTH - 1)

(* 4-byte ranges whose mask is written as a netmask or hostmask, and a     *)
(* 16-byte address with a dotted suffix                                    *)
NetmaskTexts ==
    UNION {WithSuffix(ProbeAddressTexts(4), v4_string_from_ip_int(m)) :
               m \in {ip_int_from_prefix(4, 1),
                      BitXor(ip_int_from_prefix(4, IPV4LENGTH - 1), ALL_ONES(4)),
                      ALL_ONES(4) - 1}}

EmbeddedTexts == {<<":", ":">> \o v4_string_from_ip_int(1)}

BareTexts == AddressTexts(4) \cup AddressTexts(6)

SpecialTexts ==
    {EmptyText} \cup BadAddressTexts \cup MalformedPrefixTexts
    \cup ScopedTexts \cup NetmaskTexts \cup EmbeddedTexts

(* every text a call is tried on *)
RangeTexts ==
    UNION {AddressTexts(v) \cup PrefixedTexts(v, AddressTexts(v))
               \cup OutOfRangeTexts(v, AddressTexts(v)) : v \in Families}
    \cup SpecialTexts

(* the texts every text of RangeTexts is paired with, in either position *)
ProbeTexts ==
    UNION {ProbeAddressTexts(v) \cup PrefixedTexts(v, ProbeAddressTexts(v))
               \cup OutOfRangeTexts(v, ProbeAddressTexts(v)) : v \in Families}
    \cup {EmptyText, <<"x">>}
    \cup {t \o <<"%", ",">> : t \in ProbeAddressTexts(6)}

(* -------- the state machine ---------------------------------------------- *)
VARIABLES
    dmz_range,          \* text of the first argument / "DMZ Range" field
    internal_range,     \* text of the second argument / "Internal Range" field
    pc,                 \* "form", "warned", "returned", "rendered" or "failed"
    mappings,           \* returned mappings: None or Some(list of entries)
    error,              \* returned error: None or Some(message)
    dmz_network,        \* local of the call: None until parsed
    internal_network,   \* local of the call: None until parsed
    dmz_ips,            \* local of the call: the source enumeration
    internal_ips,       \* local of the call: the target enumeration
    csv_data            \* None or Some(CSV text)

vars == <<dmz_range, internal_range, pc, mappings, error, dmz_network,
          internal_network, dmz_ips, internal_ips, csv_data>>

Init ==
    /\ \/ dmz_range \in RangeTexts /\ internal_range \in ProbeTexts
       \/ dmz_range \in ProbeTexts /\ internal_range \in RangeTexts
    /\ pc = "form"
    /\ mappings = None
    /\ error = None
    /\ dmz_network = None
    /\ internal_network = None
    /\ dmz_ips = <<>>
    /\ internal_ips = <<>>
    /\ csv_data = None

(* a call of generate_nat_mapping on the two texts: by main (line 122),    *)
(* which calls it with two non-empty texts only, or by any other caller    *)
Generate ==
    /\ pc = "form"
    /\ LET r == generate_nat_mapping(dmz_range, internal_range)
       IN  /\ mappings' = r.mappings
           /\ error' = r.error
           /\ dmz_network' = r.dmz_network
           /\ internal_network' = r.internal_network
           /\ dmz_ips' = r.dmz_ips
           /\ internal_ips' = r.internal_ips
    /\ pc' = "returned"
    /\ UNCHANGED <<dmz_range, internal_range, csv_data>>

(* main, lines 120 and 181-182: with an empty text there is no call *)
Warn ==
    /\ pc = "form"
    /\ (dmz_range = EmptyText \/ internal_range = EmptyText)
    /\ pc' = "warned"
    /\ UNCHANGED <<dmz_range, internal_range, mappings, error, dmz_network,
                   internal_network, dmz_ips, internal_ips, csv_data>>

(* main, lines 124-125: the error of its call is displayed *)
ShowError ==
    /\ pc = "returned"
    /\ dmz_range # EmptyText /\ internal_range # EmptyText
    /\ error # None
    /\ pc' = "failed"
    /\ UNCHANGED <<dmz_range, internal_range, mappings, error, dmz_network,
                   internal_network, dmz_ips, internal_ips, csv_data>>

(* main, lines 126-160: the result is displayed and the CSV text built *)
RenderCsv ==
    /\ pc = "returned"
    /\ error = None
    /\ csv_data' = Some(csv_data_of(mappings[1]))
    /\ pc' = "rendered"
    /\ UNCHANGED <<dmz_range, internal_range, mappings, error, dmz_network,
                   internal_network, dmz_ips, internal_ips>>

Next == Generate \/ Warn \/ ShowError \/ RenderCsv

Spec == Init /\ [][Next]_vars

---------------------------------------------------------------------------
(* -------- properties ------------------------------------------------------ *)
(* The texts address/N, each with what it was built from: family, prefix   *)
(* length, address, and the text of the same range with the host bits of   *)
(* the address cleared.                                                    *)
Prefixed ==
    UNION {{[version |-> v, prefixlen |-> N, ip |-> a,
             text |-> str(Address(v, a, <<>>)) \o <<"/">> \o Digits(N, 10),
             canonical |-> str(Address(v, a - (a % Pow2(max_prefixlen(v) - N)), <<>>))
                           \o <<"/">> \o Digits(N, 10)] :
               a \in 0..ALL_ONES(v), N \in 0..max_prefixlen(v)} : v \in Families}

Described(text) == {e \in Prefixed : e.text = text}

Called == pc \in {"returned", "failed", "rendered"}
Succeeded == Called /\ mappings # None
FailedWith(kind) == Called /\ mappings = None /\ error # None /\ error[1][1] = kind

(* C1: two 4-byte ranges address/N with the same N succeed with            *)
(* 2^(IPV4LENGTH-N) - 2 entries when N <= IPV4LENGTH - 2 and with          *)
(* 2^(IPV4LENGTH-N) entries for the two longest prefixes.                  *)
C1_Cardinality ==
    Called =>
        \A d \in Described(dmz_range), i \in Described(internal_range) :
            (d.version = 4 /\ i.version = 4 /\ d.prefixlen = i.prefixlen) =>
                /\ Succeeded
                /\ error = None
                /\ Len(mappings[1]) =
                       IF d.prefixlen <= IPV4LENGTH - 2
                       THEN Pow2(IPV4LENGTH - d.prefixlen) - 2
                       ELSE Pow2(IPV4LENGTH - d.prefixlen)

C1_Witness ==
    /\ Succeeded
    /\ \E d \in Described(dmz_range), i \in Described(internal_range) :
           /\ d.version = 4 /\ i.version = 4
           /\ d.prefixlen = IPV4LENGTH - 2 /\ i.prefixlen = IPV4LENGTH - 2
           /\ d.ip # i.ip
    /\ Len(mappings[1]) = 2

(* C2: when both texts parse as networks and the prefix lengths differ,    *)
(* the call returns no mappings and the mask message naming the prefix     *)
(* length of the first range, then that of the second.                     *)
C2_PrefixMismatch ==
    /\ (Called /\ dmz_network # None /\ internal_network # None
            /\ dmz_network[1].prefixlen # internal_network[1].prefixlen) =>
           /\ mappings = None
           /\ error = Some(<<MaskError>> \o Digits(dmz_network[1].prefixlen, 10)
                           \o <<", Internal: /">>
                           \o Digits(internal_network[1].prefixlen, 10))
    /\ Called =>
           \A d \in Described(dmz_range), i \in Described(internal_range) :
               d.prefixlen # i.prefixlen =>
                   /\ mappings = None
                   /\ error = Some(<<MaskError>> \o Digits(d.prefixlen, 10)
                                   \o <<", Internal: /">> \o Digits(i.prefixlen, 10))

C2_Witness ==
    /\ FailedWith(MaskError)
    /\ \E d \in Described(dmz_range), i \in Described(internal_range) :
           d.version = 4 /\ i.version = 4 /\ d.prefixlen = 1 /\ i.prefixlen = 0

(* the addresses of a network's block: those sharing its leading bits *)
Block(network) ==
    {a \in 0..ALL_ONES(network.version) :
        a \div Pow2(max_prefixlen(network.version) - network.prefixlen)
            = network.network_address.ip
                  \div Pow2(max_prefixlen(network.version) - network.prefixlen)}

Lowest(S) == CHOOSE a \in S : \A b \in S : a <= b
Highest(S) == CHOOSE a \in S : \A b \in S : a >= b

Values(ips) == {ips[k].ip : k \in 1..Len(ips)}

(* the claimed enumeration of a network *)
ClaimedHosts(network) ==
    IF network.prefixlen <= max_prefixlen(network.version) - 2
    THEN Block(network) \ {Lowest(Block(network)), Highest(Block(network))}
    ELSE Block(network)

(* C3 as stated: in either family the enumeration of a network is its      *)
(* block without the first and last address when the prefix length is at   *)
(* most addressBits - 2, and the whole block otherwise.                    *)
C3_Original ==
    Succeeded =>
        /\ Values(dmz_ips) = ClaimedHosts(dmz_network[1])
        /\ Values(internal_ips) = ClaimedHosts(internal_network[1])

(* the enumeration of a network: as claimed in the 4-byte family; in the   *)
(* 16-byte family only the first address is left out                       *)
ActualHosts(network) ==
    IF network.prefixlen > max_prefixlen(network.version) - 2 THEN Block(network)
    ELSE IF network.version = 4
    THEN Block(network) \ {Lowest(Block(network)), Highest(Block(network))}
    ELSE Block(network) \ {Lowest(Block(network))}

(* C3 amended: the enumeration of a network is its whole block for the two *)
(* longest prefixes; otherwise the block without its first and last        *)
(* address in the 4-byte family, and the block without its first address   *)
(* (the last one included) in the 16-byte family.                          *)
C3_Enumeration ==
    Succeeded =>
        /\ Values(dmz_ips) = ActualHosts(dmz_network[1])
        /\ Len(dmz_ips) = Cardinality(ActualHosts(dmz_network[1]))
        /\ Values(internal_ips) = ActualHosts(internal_network[1])
        /\ Len(internal_ips) = Cardinality(ActualHosts(internal_network[1]))

C3_Witness ==
    /\ Succeeded
    /\ dmz_network[1].version = 6 /\ internal_network[1].version = 6
    /\ dmz_network[1].prefixlen = IPV6LENGTH - 2
    /\ Highest(Block(dmz_network[1])) \in Values(dmz_ips)
    /\ Lowest(Block(dmz_network[1])) \notin Values(dmz_ips)

(* C4 as stated: a text that is an address without a /prefixLength suffix  *)
(* makes the call fail with the format message and yields no mappings.     *)
C4_BareRejected ==
    (Called /\ (dmz_range \in BareTexts \/ internal_range \in BareTexts)) =>
        FailedWith(FormatError)

(* texts that are no range: empty, no address, or no prefix length of the  *)
(* family                                                                  *)
InvalidTexts == {EmptyText} \cup BadAddressTexts \cup BadPrefixTexts

(* C5: when either text is empty, has an invalid address or a prefix       *)
(* length outside its family's range, the call returns no mappings and the *)
(* format message, whatever the other text is.                             *)
C5_InvalidFormat ==
    (Called /\ (dmz_range \in InvalidTexts \/ internal_range \in InvalidTexts)) =>
        FailedWith(FormatError)

C5_Witness ==
    /\ FailedWith(FormatError)
    /\ \E d \in Described(dmz_range) : d.version = 4 /\ d.prefixlen = 1
    /\ internal_range \in OutOfRangeTexts(4, AddressTexts(4))

Canonical(text) ==
    IF Described(text) = {} THEN text ELSE (CHOOSE e \in Described(text) : TRUE).canonical

SameResult(r) ==
    /\ r.mappings = mappings
    /\ (r.error = None) = (error = None)
    /\ (r.error # None => r.error[1][1] = error[1][1])

(* C6: a range address/N and the same range with the host bits of the      *)
(* address cleared give the same result in either position: the same       *)
(* entries in the same order, or the same kind of failure.                 *)
C6_LooseParsing ==
    Called =>
        /\ SameResult(generate_nat_mapping(Canonical(dmz_range), internal_range))
        /\ SameResult(generate_nat_mapping(dmz_range, Canonical(internal_range)))

C6_Witness ==
    /\ Succeeded
    /\ Canonical(dmz_range) # dmz_range
    /\ Canonical(internal_range) # internal_range
    /\ Len(mappings[1]) > 1

(* C7: in a successful result the source addresses of consecutive entries  *)
(* ascend strictly by integer value, so do the target addresses, and no    *)
(* text appears twice in a column.                                         *)
C7_Ascending ==
    Succeeded =>
        /\ Len(mappings[1]) <= Len(dmz_ips) /\ Len(mappings[1]) <= Len(internal_ips)
        /\ \A k \in 1..(Len(mappings[1]) - 1) :
               /\ dmz_ips[k].ip < dmz_ips[k + 1].ip
               /\ internal_ips[k].ip < internal_ips[k + 1].ip
        /\ \A k \in 1..Len(mappings[1]) :
               /\ mappings[1][k].DMZ_IP = str(dmz_ips[k])
               /\ mappings[1][k].Internal_IP = str(internal_ips[k])
        /\ \A j, k \in 1..Len(mappings[1]) :
               j # k => /\ mappings[1][j].DMZ_IP # mappings[1][k].DMZ_IP
                        /\ mappings[1][j].Internal_IP # mappings[1][k].Internal_IP

C7_Witness ==
    /\ Succeeded
    /\ Len(mappings[1]) >= 3
    /\ dmz_ips[1].ip # internal_ips[1].ip

(* C8: a call returns either mappings and no error, or no mappings and a   *)
(* non-empty error message; never both, never neither.                     *)
C8_ResultOrError ==
    Called =>
        \/ mappings # None /\ error = None
        \/ mappings = None /\ error # None /\ Len(error[1]) > 0

C8_Witness == FailedWith(FormatError) /\ dmz_range \in RangeTexts \ InvalidTexts

(* the CSV text read back: the lines after the header, each split at its   *)
(* first comma                                                             *)
FirstComma(line) == CHOOSE k \in 1..Len(line) : line[k] = "," /\ \A j \in 1..(k - 1) : line[j] # ","

Reparsed(text) ==
    [k \in 1..Len(Tail(split(text, "\n"))) |->
        IF contains(Tail(split(text, "\n"))[k], ",")
        THEN <<SubSeq(Tail(split(text, "\n"))[k], 1, FirstComma(Tail(split(text, "\n"))[k]) - 1),
               SubSeq(Tail(split(text, "\n"))[k], FirstComma(Tail(split(text, "\n"))[k]) + 1,
                      Len(Tail(split(text, "\n"))[k]))>>
        ELSE <<Tail(split(text, "\n"))[k]>>]

(* C9 as stated: the CSV text built from a successful result, read back,   *)
(* gives the same (source, target) pairs in the same order.                *)
C9_CsvRoundTrip ==
    pc = "rendered" =>
        Reparsed(csv_data[1])
            = [k \in 1..Len(mappings[1]) |->
                  <<mappings[1][k].DMZ_IP, mappings[1][k].Internal_IP>>]

Offset(address, network) == address.ip - network.network_address.ip

OffsetsKept ==
    /\ Len(dmz_ips) = Len(internal_ips)
    /\ Len(mappings[1]) = Len(dmz_ips)
    /\ \A k \in 1..Len(mappings[1]) :
           /\ mappings[1][k].DMZ_IP = str(dmz_ips[k])
           /\ mappings[1][k].Internal_IP = str(internal_ips[k])
           /\ Offset(dmz_ips[k], dmz_network[1]) = Offset(internal_ips[k], internal_network[1])

====
